---- MODULE Spec2Model ----
(***************************************************************************)
(* A model of parallel_twitter: the credential-rotating request scheduler  *)
(* (ParallelTwitterClient._parallel_call), the credential handles          *)
(* (TwitterOp) it keeps in one heapq per operation kind, and the public    *)
(* operations built on it.                                                 *)
(*                                                                         *)
(* Time is counted in ticks of 1/60 second, so that the stagger spacing    *)
(* 60 / n / reqs_per_minute is an exact integer for every n up to 6.       *)
(***************************************************************************)
EXTENDS Integers, Sequences, FiniteSets, TLC

VARIABLES
    now,            \* what time.time() returns
    operators,      \* ParallelTwitterClient.operators: kind -> heapq list of unique_ids
    renewal_time,   \* TwitterOp.renewal_time: kind -> unique_id -> time
    last_call,      \* ParallelTwitterClient.last_call
    n_requests,     \* ParallelTwitterClient.n_requests
    pc,             \* position of the running _parallel_call
    fn,             \* its operation kind
    params,         \* its *params
    iters,          \* iterations of the trial loop still to run
    op,             \* the handle popped in the running iteration
    attempted_keys, \* its attempted_keys list
    outcome,        \* how the last _parallel_call resolved
    method,         \* the public operation this client is used for
    loc,            \* its local variables
    ret,            \* how the last public operation resolved
    hist,           \* history of the running _parallel_call (observation only)
    invoked,        \* the latest op.invoke made: kind, handle, time (observation only)
    apis,           \* what the apis answered the construction probes (observation only)
    threads,        \* caller -> frame of its _parallel_call, when two callers share the client
    seed,           \* calculate_industry_group: the seed argument
    depth,          \* its depth argument
    friends,        \* what client.get_friend_ids answers for each user
    users_queue,    \* its users_queue: a list of <<user, hops>>
    n_followers,    \* its n_followers dictionary: user -> count
    expansions,     \* the entries popped so far (observation only)
    discovered,     \* user -> hops at which it was first counted (observation only)
    result          \* what calculate_industry_group returned

vars == <<now, operators, renewal_time, last_call, n_requests, pc, fn, params,
          iters, op, attempted_keys, outcome, method, loc, ret, hist, invoked,
          apis, threads, seed, depth, friends, users_queue, n_followers,
          expansions, discovered, result>>

sched == <<operators, renewal_time, last_call, n_requests>>
frame == <<pc, fn, params, iters, op, attempted_keys, outcome, hist>>
trav == <<seed, depth, friends, users_queue, n_followers, expansions,
          discovered, result>>

-----------------------------------------------------------------------------
(* Bounds of the model *)

NumApis == 2          \* credentials handed to ParallelTwitterClient(apis=...)
NumUsers == 3         \* users of the graph the traversal explores
MaxRequests == 3      \* _parallel_call calls explored per run (n_requests cap)

-----------------------------------------------------------------------------
(* Time *)

SecondsPerMinute == 60
Second == SecondsPerMinute          \* ticks in one second
Minute == SecondsPerMinute * Second \* ticks in one minute

\* time.time() when the client is built: mock_time.return_value = 1000
StartTime == 1000 * Second

\* The reset time a rate-limit probe reports when no quota is left: a fixed
\* moment a little more than a minute after construction (the mocks of
\* mock_api.py report a fixed renewal_time too).
ResetTimes == {StartTime + Minute + Second}

\* The caller lets time pass in steps of a minute.
IdleStep == Minute

-----------------------------------------------------------------------------
(* Operation kinds: the TwitterOp subclasses *)

OPERATORS == {"GetFavorites", "GetFollowerIDs", "GetFriendIDs",
              "GetUserTimeline", "StatusesLookup", "UsersLookup"}

reqs_per_minute(k) ==
    CASE k = "GetUserTimeline" -> 60
      [] k = "UsersLookup"     -> 60
      [] k = "StatusesLookup"  -> 60
      [] k = "GetFavorites"    -> 5
      [] OTHER                 -> 1

-----------------------------------------------------------------------------
(* TwitterError messages and their classification (error.py) *)

\* ex.message is a str, or the list of {code, message} dicts of the API.
Messages ==
    {[t |-> "str", s |-> "Not authorized.", code |-> 0],
     [t |-> "str", s |-> "Rate limit exceeded", code |-> 0],
     [t |-> "list", s |-> "", code |-> 88],
     [t |-> "list", s |-> "", code |-> 429],
     [t |-> "list", s |-> "", code |-> 420],
     [t |-> "list", s |-> "", code |-> 34]}

\* Variant: the message compared without its final period
not_authorized_error_no_period(ex) == ex.t = "str" /\ ex.s = "Not authorized"

not_authorized_error(ex) == ex.t = "str" /\ ex.s = "Not authorized."

rate_limit_error(ex) == ex.t = "list" /\ ex.code \in {420, 429, 88}

-----------------------------------------------------------------------------
(* heapq over handles compared by TwitterOp.__lt__ *)

\* Variant: the order reversed
gt(rt, a, b) == rt[a] > rt[b]

\* TwitterOp.__lt__: rt is the renewal_time map of the kind
lt(rt, a, b) == rt[a] < rt[b]

RECURSIVE siftdown_loop(_, _, _, _, _)
siftdown_loop(rt, heap, startpos, pos, newitem) ==
    IF pos > startpos
    THEN LET parentpos == (pos - 1) \div 2
             parent == heap[parentpos + 1]
         IN IF lt(rt, newitem, parent)
            THEN siftdown_loop(rt, [heap EXCEPT ![pos + 1] = parent],
                               startpos, parentpos, newitem)
            ELSE [heap EXCEPT ![pos + 1] = newitem]
    ELSE [heap EXCEPT ![pos + 1] = newitem]

\* heapq._siftdown(heap, startpos, pos); positions are 0-based as in Python
siftdown(rt, heap, startpos, pos) ==
    siftdown_loop(rt, heap, startpos, pos, heap[pos + 1])

RECURSIVE siftup_loop(_, _, _, _)
siftup_loop(rt, heap, pos, childpos) ==
    IF childpos < Len(heap)
    THEN LET rightpos == childpos + 1
             c == IF rightpos < Len(heap)
                     /\ ~lt(rt, heap[childpos + 1], heap[rightpos + 1])
                  THEN rightpos ELSE childpos
         IN siftup_loop(rt, [heap EXCEPT ![pos + 1] = heap[c + 1]], c, 2 * c + 1)
    ELSE <<heap, pos>>

\* heapq._siftup(heap, pos)
siftup(rt, heap, pos) ==
    LET newitem == heap[pos + 1]
        r == siftup_loop(rt, heap, pos, 2 * pos + 1)
    IN siftdown(rt, [r[1] EXCEPT ![r[2] + 1] = newitem], pos, r[2])

\* heapq.heappush(heap, item)
\* Variant: list.append instead of heapq.heappush
heappush_append(rt, heap, item) == Append(heap, item)

heappush(rt, heap, item) ==
    siftdown(rt, Append(heap, item), 0, Len(heap))

\* Variant: the smallest item read but left in the heap
heappop_keep(rt, heap) == <<heap[1], heap>>

\* Variant: list.pop() instead of heapq.heappop
heappop_last(rt, heap) == <<heap[Len(heap)], SubSeq(heap, 1, Len(heap) - 1)>>

\* heapq.heappop(heap): <<the item returned, the heap left>>
heappop(rt, heap) ==
    LET lastelt == heap[Len(heap)]
        rest == SubSeq(heap, 1, Len(heap) - 1)
    IN IF rest # <<>>
       THEN <<rest[1], siftup(rt, [rest EXCEPT ![1] = lastelt], 0)>>
       ELSE <<lastelt, rest>>

RECURSIVE heapify_loop(_, _, _)
heapify_loop(rt, x, i) ==
    IF i < 0 THEN x ELSE heapify_loop(rt, siftup(rt, x, i), i - 1)

\* heapq.heapify(x): for i in reversed(range(n // 2)): _siftup(x, i)
heapify(rt, x) == heapify_loop(rt, x, (Len(x) \div 2) - 1)

\* Variant: every element is put back twice
add_all_to_heap_twice(rt, lst, heap) == heap \o lst \o lst

RECURSIVE add_all_to_heap(_, _, _)
add_all_to_heap(rt, lst, heap) ==
    IF lst = <<>> THEN heap
    ELSE add_all_to_heap(rt, Tail(lst), heappush(rt, heap, Head(lst)))

-----------------------------------------------------------------------------
(* The rate-limit probe: api.CheckRateLimit(endpoint) *)

\* What a probe can answer: a TwitterError, quota left, or no quota left
\* until the reported reset time.
ProbeAnswers ==
    {[err |-> TRUE, remaining |-> 0, reset |-> 0],
     [err |-> FALSE, remaining |-> 15, reset |-> 0]}
    \cup {[err |-> FALSE, remaining |-> 0, reset |-> r] : r \in ResetTimes}

\* No probe was made
NoProbe == [err |-> FALSE, remaining |-> -1, reset |-> 0]

\* Variant: the renewal time goes back to 0 when quota is left
reset_renewal_time_zero(old, p) ==
    IF p.remaining = 0 THEN p.reset ELSE 0

\* Variant: the reported reset time is taken whatever quota is left
reset_renewal_time_always(old, p) == p.reset

\* TwitterOp._reset_renewal_time: the renewal time after a probe that
\* answered p (p.err = FALSE), given the renewal time before
reset_renewal_time(old, p) ==
    IF p.remaining = 0 THEN p.reset ELSE old

\* Variant: a handle is built for every api, whatever its probe answers
api_keys_to_ops_keep(answers) ==
    [i \in DOMAIN answers |-> reset_renewal_time(0, answers[i])]

RECURSIVE api_keys_to_ops(_)
\* _api_keys_to_ops: the renewal times of the handles built, in unique_id
\* order, from the probe answers of the apis in list order
api_keys_to_ops(answers) ==
    IF answers = <<>> THEN <<>>
    ELSE LET p == answers[Len(answers)]
             before == api_keys_to_ops(SubSeq(answers, 1, Len(answers) - 1))
         IN IF p.err THEN before
            ELSE Append(before, reset_renewal_time(0, p))

\* unique_id -> renewal time, from the sequence of renewal times
ById(rts) == [u \in 0 .. Len(rts) - 1 |-> rts[u + 1]]

\* range(n) as a list of unique_ids
Range(n) == [i \in 1 .. n |-> i - 1]

-----------------------------------------------------------------------------
(* Results *)

NoOutcome == [how |-> "none", value |-> <<>>]
Result(v) == [how |-> "result", value |-> v]
\* `return []` of the not-authorized branch
EmptyResult == [how |-> "empty", value |-> <<>>]
Raise(e) == [how |-> e, value |-> <<>>]

Raised(o) == o.how \notin {"none", "result", "empty"}

\* What the caller of _parallel_call gets: the value returned, or the
\* exception on its way up
Propagate(o) == IF Raised(o) THEN o ELSE Result(o.value)

NoHist == [n0 |-> 0, heap0 |-> <<>>, rt0 |-> <<>>, t0 |-> 0, last0 |-> 0,
           stagger |-> 0, tried |-> <<>>, pushed |-> <<>>, probe |-> NoProbe,
           ops0 |-> <<>>, rts0 |-> <<>>, requests0 |-> 0]

\* No op.invoke has been made yet
NoInvoke == [k |-> "none", h |-> 0, t |-> 0]

\* The locals of the public operations; max_id = 0 stands for None (post ids
\* are positive), prev = 0 before the first page. attempts and empties count
\* the _parallel_call calls of the running operation and those of them that
\* returned the not-authorized empty list; sent and got list what the paged
\* operations asked for (a chunk, a max_id) and what each call returned
\* (observation only).
NoLoc == [cursor |-> 0, prev |-> 0, acc |-> <<>>, count |-> 0, calls |-> 0,
          max_id |-> 0, ids |-> <<>>, i |-> 0, min_count |-> 0,
          max_requests |-> 0, batch |-> 0, attempts |-> 0, empties |-> 0,
          sent |-> <<>>, got |-> <<>>]

-----------------------------------------------------------------------------
(* What the remote service may answer to a successful call *)

\* A list of ids 1 .. n
Ids(n) == [i \in 1 .. n |-> i]

\* Pages of a timeline: posts in descending id order
TimelinePages ==
    {<<>>, <<1>>, <<2>>, <<3>>, <<2, 1>>, <<3, 1>>, <<3, 2>>}

\* Pages of GetFollowerIDsPaged: (next_cursor, previous_cursor, ids)
FollowerPages ==
    {<<nc, pv, ids>> : nc \in {0, 5}, pv \in {0, 5}, ids \in {<<>>, <<3>>}}

Responses(k, ps) ==
    CASE k = "GetFriendIDs" -> {<<>>, <<2>>}
      [] k = "GetFavorites" -> {<<>>, <<7>>}
      [] k = "GetFollowerIDs" -> FollowerPages
      [] k = "GetUserTimeline" -> TimelinePages
      [] OTHER -> {ps[1], <<>>}

-----------------------------------------------------------------------------
(* Construction: ParallelTwitterClient.__init__ *)

\* The public operations that return _parallel_call's result as it is
DirectMethods == {"get_friend_ids", "get_favorites"}

Methods == DirectMethods \cup
           {"get_followers", "get_user_timeline", "users_lookup", "statuses_lookup"}

\* No traversal is running
NoTraversal ==
    /\ seed = <<>>
    /\ depth = 0
    /\ friends = <<>>
    /\ users_queue = <<>>
    /\ n_followers = <<>>
    /\ expansions = <<>>
    /\ discovered = <<>>
    /\ result = <<>>

\* The client right after construction from apis that answer the probes as
\* one of probes, used for one of the operations ms (as each entry point of
\* examples.py does). Every endpoint of one api answers the construction
\* probes alike, as the mocks of mock_api.py do.
Built(ms, probes) ==
    \E answers \in probes :
        LET rts == ById(api_keys_to_ops(answers))
        IN /\ renewal_time = [k \in OPERATORS |-> rts]
           /\ operators = [k \in OPERATORS |->
                              heapify(rts, Range(Cardinality(DOMAIN rts)))]
           /\ now = StartTime
           /\ last_call = 0
           /\ n_requests = 0
           /\ fn = "none"
           /\ params = <<>>
           /\ iters = 0
           /\ op = 0
           /\ attempted_keys = <<>>
           /\ outcome = NoOutcome
           /\ method \in ms
           /\ loc = NoLoc
           /\ ret = NoOutcome
           /\ hist = NoHist
           /\ invoked = NoInvoke

\* The client built from napis apis, idle, and no traversal running
ConstructWith(ms, napis) ==
    /\ Built(ms, [1 .. napis -> ProbeAnswers])
    /\ apis = <<>>
    /\ threads = <<>>
    /\ pc = "idle"
    /\ NoTraversal

\* ParallelTwitterClient(apis) with NumApis apis
Construct(ms) == ConstructWith(ms, NumApis)

Init == Construct(DirectMethods)

\* The client of a caller that mixes two kinds is built from one api fewer.
InitMixed == ConstructWith(DirectMethods, NumApis - 1)

InitOps == Construct(Methods)

-----------------------------------------------------------------------------
(* The clock *)

\* Time passes between two public operations. Once a minute has passed since
\* the last dispatch no stagger applies any more (stagger_rate is at most
\* 60 / 1 / 1), so longer pauses are not explored.
Tick ==
    /\ pc = "idle"
    /\ now - last_call < Minute
    /\ now' = now + IdleStep
    /\ UNCHANGED <<sched, frame, method, invoked, apis, threads, trav, loc, ret>>

-----------------------------------------------------------------------------
(* ParallelTwitterClient._parallel_call *)

\* Variants: one iteration more, one iteration less
trial_iterations_more(n) == n + 1
trial_iterations_less(n) == IF n > 0 THEN n - 1 ELSE 0

\* range(len(self.operators[fn])): the iterations of the trial loop
trial_iterations(n) == n

\* 60 / len(self.operators[fn]) / fn.reqs_per_minute, in ticks (n > 0)
stagger_rate(n, k) == (Minute \div n) \div reqs_per_minute(k)

\* Variant: the whole spacing slept, whatever time has elapsed
stagger_sleep_full(n, k, t, last) ==
    IF t - last < stagger_rate(n, k) THEN stagger_rate(n, k) ELSE 0

\* time.sleep(stagger_rate - time_since_last) when the call comes too early
stagger_sleep(n, k, t, last) ==
    IF t - last < stagger_rate(n, k) THEN stagger_rate(n, k) - (t - last) ELSE 0

\* Lines 70-81: the stagger, the dispatch time, the request counter.
Dispatch ==
    /\ pc = "call"
    /\ LET n == Len(operators[fn])
       IN IF n = 0
          THEN \* 60 / 0
               /\ outcome' = Raise("ZeroDivisionError")
               /\ pc' = "returned"
               /\ hist' = [NoHist EXCEPT !.t0 = now, !.rt0 = renewal_time[fn],
                                         !.ops0 = operators,
                                         !.rts0 = renewal_time,
                                         !.requests0 = n_requests]
               /\ UNCHANGED <<now, sched, fn, params, iters, op, attempted_keys>>
          ELSE /\ n_requests < MaxRequests
               /\ LET d == stagger_sleep(n, fn, now, last_call)
                  IN /\ now' = now + d
                     /\ last_call' = now + d
                     /\ hist' = [NoHist EXCEPT !.n0 = n, !.heap0 = operators[fn],
                                               !.rt0 = renewal_time[fn],
                                               !.t0 = now, !.last0 = last_call,
                                               !.stagger = d,
                                               !.ops0 = operators,
                                               !.rts0 = renewal_time,
                                               !.requests0 = n_requests]
               /\ n_requests' = n_requests + 1
               /\ attempted_keys' = <<>>
               /\ iters' = trial_iterations(n)
               /\ pc' = "loop"
               /\ outcome' = NoOutcome
               /\ UNCHANGED <<operators, renewal_time, fn, params, op>>
    /\ UNCHANGED <<method, invoked, apis, threads, trav, loc, ret>>

\* Variant: the wait without the one-second buffer
renewal_sleep_no_buffer(rt, t) == IF rt > t THEN rt - t ELSE 0

\* time.sleep(op.renewal_time - time.time() + 1) when the renewal time is
\* still ahead
renewal_sleep(rt, t) == IF rt > t THEN rt - t + Second ELSE 0

\* What an error means in the taxonomy of failures: the target is private
\* ('Not authorized.'), the credential is rate limited (API codes 88, 420,
\* 429), or anything else. Recorded in hist for observation only.
Taxonomy(ex) ==
    IF ex.t = "str" /\ ex.s = "Not authorized." THEN "not_authorized"
    ELSE IF ex.t = "list" /\ ex.code \in {88, 420, 429} THEN "rate_limit"
    ELSE "other"

\* Lines 83-87: pop the next handle and wait for its renewal time.
Pop ==
    /\ pc = "loop"
    /\ iters > 0
    /\ IF operators[fn] = <<>>
       THEN \* heappop of an empty list
            /\ outcome' = Raise("IndexError")
            /\ pc' = "returned"
            /\ UNCHANGED <<now, operators, op, iters, hist>>
       ELSE LET r == heappop(renewal_time[fn], operators[fn])
                d == renewal_sleep(renewal_time[fn][r[1]], now)
            IN /\ op' = r[1]
               /\ operators' = [operators EXCEPT ![fn] = r[2]]
               /\ now' = now + d
               /\ hist' = [hist EXCEPT !.tried = Append(@,
                             [h |-> r[1], rt |-> renewal_time[fn][r[1]],
                              t |-> now, slept |-> d, ti |-> 0, res |-> "pending"]),
                           !.probe = NoProbe]
               /\ iters' = iters - 1
               /\ pc' = "invoke"
               /\ UNCHANGED outcome
    /\ UNCHANGED <<renewal_time, last_call, n_requests, fn, params,
                   attempted_keys, method, invoked, apis, threads, trav, loc, ret>>

\* hist.tried with the answer of the running iteration filled in
Tried(res) ==
    [hist.tried EXCEPT ![Len(hist.tried)].res = res, ![Len(hist.tried)].ti = now]

\* Lines 88-92: op.invoke succeeds; requeue and return the result.
InvokeOk ==
    /\ pc = "invoke"
    /\ \E v \in Responses(fn, params) :
          outcome' = Result(v)
    /\ LET keys == Append(attempted_keys, op)
       IN /\ attempted_keys' = keys
          /\ operators' = [operators EXCEPT ![fn] =
                              add_all_to_heap(renewal_time[fn], keys, @)]
          /\ hist' = [hist EXCEPT !.tried = Tried("ok"), !.pushed = @ \o keys]
    /\ pc' = "returned"
    /\ invoked' = [k |-> fn, h |-> op, t |-> now]
    /\ UNCHANGED <<now, renewal_time, last_call, n_requests, fn, params, iters,
                   op, method, apis, threads, trav, loc, ret>>

\* TwitterOp.invoke, lines 43-45: the exception that leaves invoke when
\* _invoke raised m and the probe answered p (pm is the probe's own error)
invoke_raises(m, p, pm) == IF p.err THEN pm ELSE m

\* The probe's own error only exists when the probe fails.
ProbeErrors(p) ==
    IF p.err THEN Messages ELSE {[t |-> "none", s |-> "", code |-> 0]}

\* Variant: every failed handle is kept for requeueing
attempted_after_always(keys, h, ex) == Append(keys, h)

\* Variant: no failed handle is kept for requeueing
attempted_after_never(keys, h, ex) == keys

\* The keys to requeue after a failure with exception ex (lines 96-97)
attempted_after(keys, h, ex) ==
    IF not_authorized_error(ex) \/ rate_limit_error(ex)
    THEN Append(keys, h) ELSE keys

\* Lines 93-101: op.invoke raises a TwitterError.
InvokeFails ==
    /\ pc = "invoke"
    /\ \E m \in Messages, p \in ProbeAnswers : \E pm \in ProbeErrors(p) :
          LET ex == invoke_raises(m, p, pm)
              rts == IF p.err THEN renewal_time[fn]
                     ELSE [renewal_time[fn] EXCEPT ![op] = reset_renewal_time(@, p)]
              keys == attempted_after(attempted_keys, op, ex)
          IN /\ renewal_time' = [renewal_time EXCEPT ![fn] = rts]
             /\ attempted_keys' = keys
             /\ IF not_authorized_error(ex)
                THEN /\ operators' = [operators EXCEPT ![fn] =
                                         add_all_to_heap(rts, keys, @)]
                     /\ outcome' = EmptyResult
                     /\ pc' = "returned"
                     /\ hist' = [hist EXCEPT !.tried = Tried(Taxonomy(ex)),
                                             !.pushed = @ \o keys,
                                             !.probe = p]
                ELSE /\ pc' = "loop"
                     /\ hist' = [hist EXCEPT !.tried = Tried(Taxonomy(ex)),
                                             !.probe = p]
                     /\ UNCHANGED <<operators, outcome>>
    /\ invoked' = [k |-> fn, h |-> op, t |-> now]
    /\ UNCHANGED <<now, last_call, n_requests, fn, params, iters, op,
                   method, apis, threads, trav, loc, ret>>

\* Lines 103-106: every iteration failed.
Exhausted ==
    /\ pc = "loop"
    /\ iters = 0
    /\ operators' = [operators EXCEPT ![fn] =
                        add_all_to_heap(renewal_time[fn], attempted_keys, @)]
    /\ hist' = [hist EXCEPT !.pushed = @ \o attempted_keys]
    /\ outcome' = Raise("OutOfKeysError")
    /\ pc' = "returned"
    /\ UNCHANGED <<now, renewal_time, last_call, n_requests, fn, params, iters,
                   op, attempted_keys, method, invoked, apis, threads, trav, loc, ret>>

-----------------------------------------------------------------------------
(* Public operations *)

\* The frame of a _parallel_call that has returned is gone.
NoFrame ==
    /\ fn' = "none"
    /\ params' = <<>>
    /\ iters' = 0
    /\ op' = 0
    /\ attempted_keys' = <<>>
    /\ outcome' = NoOutcome
    /\ hist' = NoHist

\* self._parallel_call(k, *ps) is entered
Call(k, ps) ==
    /\ fn' = k
    /\ params' = ps
    /\ pc' = "call"
    /\ UNCHANGED <<iters, op, attempted_keys, outcome, hist>>

\* loc after one more _parallel_call has returned o
Counted(l, o) ==
    [l EXCEPT !.attempts = @ + 1,
              !.empties = @ + (IF o.how = "empty" THEN 1 ELSE 0)]

\* get_friend_ids: return self._parallel_call(GetFriendIDs, ...)
get_friend_ids ==
    /\ pc = "idle"
    /\ method = "get_friend_ids"
    /\ Call("GetFriendIDs", <<>>)
    /\ loc' = NoLoc
    /\ ret' = NoOutcome
    /\ UNCHANGED <<now, sched, method, invoked, apis, threads, trav>>

\* get_favorites: return self._parallel_call(GetFavorites, ...)
get_favorites ==
    /\ pc = "idle"
    /\ method = "get_favorites"
    /\ Call("GetFavorites", <<>>)
    /\ loc' = NoLoc
    /\ ret' = NoOutcome
    /\ UNCHANGED <<now, sched, method, invoked, apis, threads, trav>>

\* The call returns to the caller of get_friend_ids / get_favorites.
ReturnDirect ==
    /\ pc = "returned"
    /\ method \in DirectMethods
    /\ ret' = Propagate(outcome)
    /\ loc' = Counted(loc, outcome)
    /\ pc' = "idle"
    /\ NoFrame
    /\ UNCHANGED <<now, sched, method, invoked, apis, threads, trav>>

Min(a, b) == IF a < b THEN a ELSE b

\* get_followers, lines 138-148: the first page is asked with cursor -1.
\* streaming_fn is None.
get_followers ==
    /\ pc = "idle"
    /\ method = "get_followers"
    /\ \E min_count \in {0, 1, 2}, batch_size \in {1, 5000} :
          /\ loc' = [NoLoc EXCEPT !.min_count = min_count,
                                  !.batch = Min(batch_size, min_count),
                                  !.cursor = -1,
                                  !.sent = <<-1>>]
          /\ Call("GetFollowerIDs", <<-1, Min(batch_size, min_count)>>)
    /\ ret' = NoOutcome
    /\ UNCHANGED <<now, sched, method, invoked, apis, threads, trav>>

\* Variant: the previous cursor is not looked at
more_pages_ignore_prev(next_cursor, prev_cursor, users_count, min_count) ==
    ~(next_cursor = 0 \/ users_count >= min_count)

\* get_followers, lines 156-159: whether another page is requested
more_pages(next_cursor, prev_cursor, users_count, min_count) ==
    ~(\/ next_cursor = 0
      \/ next_cursor = prev_cursor
      \/ users_count >= min_count)

\* get_followers, lines 142-160: a page call has returned.
ReturnFollowers ==
    /\ pc = "returned"
    /\ method = "get_followers"
    /\ LET l == Counted(loc, outcome)
           v == outcome.value
       IN IF Raised(outcome)
          THEN /\ ret' = outcome
               /\ loc' = l
               /\ pc' = "idle"
               /\ NoFrame
          ELSE IF Len(v) # 3
          THEN \* next_cursor, prev_cursor, user_ids = []
               /\ ret' = Raise("ValueError")
               /\ loc' = l
               /\ pc' = "idle"
               /\ NoFrame
          ELSE LET acc == l.acc \o v[3]
                   count == l.count + Len(v[3])
                   l2 == [l EXCEPT !.cursor = v[1], !.prev = v[2],
                                   !.acc = acc, !.count = count,
                                   !.got = Append(@, v)]
               IN IF more_pages(v[1], v[2], count, l.min_count)
                  THEN /\ loc' = [l2 EXCEPT !.sent = Append(@, v[1])]
                       /\ Call("GetFollowerIDs", <<v[1], l.batch>>)
                       /\ UNCHANGED ret
                  ELSE /\ loc' = l2
                       /\ ret' = Result(acc)
                       /\ pc' = "idle"
                       /\ NoFrame
    /\ UNCHANGED <<now, sched, method, invoked, apis, threads, trav>>

\* Variant: the request budget is not looked at
loop_on_no_budget(n_posts, min_count, calls, max_requests) ==
    n_posts < min_count

\* get_user_timeline, line 219: the loop condition
loop_on(n_posts, min_count, calls, max_requests) ==
    n_posts < min_count /\ calls < max_requests

\* get_user_timeline, lines 216-226: the loop is entered, or not at all.
get_user_timeline ==
    /\ pc = "idle"
    /\ method = "get_user_timeline"
    /\ \E min_count \in {0, 1, 3}, max_requests \in {0, 1, 100000} :
          /\ loc' = [NoLoc EXCEPT !.min_count = min_count,
                                  !.max_requests = max_requests,
                                  !.sent = IF loop_on(0, min_count, 0, max_requests)
                                           THEN <<0>> ELSE <<>>]
          /\ IF loop_on(0, min_count, 0, max_requests)
             THEN /\ Call("GetUserTimeline", <<0>>)
                  /\ ret' = NoOutcome
                  /\ UNCHANGED <<now, sched, method, invoked, apis, threads, trav>>
             ELSE /\ ret' = Result(<<>>)
                  /\ UNCHANGED <<now, sched, method, invoked, apis, threads, trav, frame>>

\* Variant: the id of the first post of the page
MinId_head(posts) == posts[1]

\* min(p.id for p in current_posts), for a non-empty list
RECURSIVE MinId(_)
MinId(posts) ==
    IF Len(posts) = 1 THEN posts[1] ELSE Min(posts[1], MinId(Tail(posts)))

\* Variant: the post equal to max_id is kept
drop_max_id_never(posts, max_id) == posts

\* Lines 232-233: throw away the post that is equal to max_id
drop_max_id(posts, max_id) ==
    IF posts[1] = max_id THEN Tail(posts) ELSE posts

\* Variant: only an empty page counts as seen
no_unseen_empty_only(posts, max_id) == Len(posts) = 0

\* Variant: every page of a single post counts as seen
no_unseen_single(posts, max_id) ==
    Len(posts) = 0 \/ Len(posts) = 1

\* Lines 227-229: there are no unseen posts in the page
no_unseen(posts, max_id) ==
    Len(posts) = 0 \/ (Len(posts) = 1 /\ posts[1] = max_id)

\* get_user_timeline, lines 227-237: a page call has returned.
ReturnTimeline ==
    /\ pc = "returned"
    /\ method = "get_user_timeline"
    /\ LET l == IF Raised(outcome) THEN Counted(loc, outcome)
                ELSE [Counted(loc, outcome) EXCEPT !.got = Append(@, outcome.value)]
           v == outcome.value
       IN IF Raised(outcome)
          THEN /\ ret' = outcome
               /\ loc' = l
               /\ pc' = "idle"
               /\ NoFrame
          ELSE IF no_unseen(v, l.max_id)
          THEN /\ ret' = Result(l.acc)
               /\ loc' = l
               /\ pc' = "idle"
               /\ NoFrame
          ELSE IF drop_max_id(v, l.max_id) = <<>>
          THEN \* line 234: min() of an empty sequence
               /\ ret' = Raise("ValueError")
               /\ loc' = l
               /\ pc' = "idle"
               /\ NoFrame
          ELSE LET page == drop_max_id(v, l.max_id)
                   l2 == [l EXCEPT !.max_id = MinId(page), !.acc = @ \o page,
                                   !.calls = @ + 1]
                   more == loop_on(Len(l2.acc), l.min_count, l2.calls, l.max_requests)
               IN /\ loc' = IF more THEN [l2 EXCEPT !.sent = Append(@, l2.max_id)]
                            ELSE l2
                  /\ IF more
                     THEN /\ Call("GetUserTimeline", <<l2.max_id>>)
                          /\ UNCHANGED ret
                     ELSE /\ ret' = Result(l2.acc)
                          /\ pc' = "idle"
                          /\ NoFrame
    /\ UNCHANGED <<now, sched, method, invoked, apis, threads, trav>>

\* The chunk size of users_lookup and statuses_lookup
ChunkSize == 100

\* Variant: the chunks counted by rounding down
n_chunks_floor(len) == len \div ChunkSize

\* range((len(user_ids) - 1) // 100 + 1): the number of chunks, for len > 0
n_chunks(len) == ((len - 1) \div ChunkSize) + 1

\* Variant: each chunk begins one id early
Chunk_early(ids, i) ==
    SubSeq(ids, IF i = 0 THEN 1 ELSE ChunkSize * i,
           IF ChunkSize * (i + 1) < Len(ids) THEN ChunkSize * (i + 1) ELSE Len(ids))

\* user_ids[100 * i: 100 * (i + 1)]
Chunk(ids, i) ==
    SubSeq(ids, ChunkSize * i + 1, Min(ChunkSize * (i + 1), Len(ids)))

\* The operation kind of a chunked lookup
LookupKind(m) == IF m = "users_lookup" THEN "UsersLookup" ELSE "StatusesLookup"

\* The id lists looked up: none, a few, a full chunk, one more, a chunk and
\* a half
LookupInputs ==
    {Ids(0), Ids(2), Ids(ChunkSize), Ids(ChunkSize + 1),
     Ids(ChunkSize + ChunkSize \div 2)}

\* users_lookup / statuses_lookup, lines 248-255: the first chunk is asked
\* for, or nothing when the list is empty.
lookup ==
    /\ pc = "idle"
    /\ method \in {"users_lookup", "statuses_lookup"}
    /\ \E ids \in LookupInputs :
          /\ loc' = [NoLoc EXCEPT !.ids = ids,
                                  !.sent = IF Len(ids) = 0 THEN <<>>
                                           ELSE <<Chunk(ids, 0)>>]
          /\ IF Len(ids) = 0
             THEN /\ ret' = Result(<<>>)
                  /\ UNCHANGED <<now, sched, method, invoked, apis, threads, trav, frame>>
             ELSE /\ Call(LookupKind(method), <<Chunk(ids, 0)>>)
                  /\ ret' = NoOutcome
                  /\ UNCHANGED <<now, sched, method, invoked, apis, threads, trav>>

\* users_lookup / statuses_lookup, lines 251-256: a chunk call has returned.
ReturnLookup ==
    /\ pc = "returned"
    /\ method \in {"users_lookup", "statuses_lookup"}
    /\ LET l == Counted(loc, outcome)
       IN IF Raised(outcome)
          THEN /\ ret' = outcome
               /\ loc' = l
               /\ pc' = "idle"
               /\ NoFrame
          ELSE LET l2 == [l EXCEPT !.acc = @ \o outcome.value, !.i = @ + 1,
                                   !.got = Append(@, outcome.value)]
                   more == l2.i < n_chunks(Len(l.ids))
               IN /\ loc' = IF more
                            THEN [l2 EXCEPT !.sent = Append(@, Chunk(l.ids, l2.i))]
                            ELSE l2
                  /\ IF more
                     THEN /\ Call(LookupKind(method), <<Chunk(l.ids, l2.i)>>)
                          /\ UNCHANGED ret
                     ELSE /\ ret' = Result(l2.acc)
                          /\ pc' = "idle"
                          /\ NoFrame
    /\ UNCHANGED <<now, sched, method, invoked, apis, threads, trav>>

-----------------------------------------------------------------------------
(* calculate_industry_group: the breadth-first traversal of examples.py *)

Users == 1 .. NumUsers

\* What get_friend_ids answers for each user: the set of the users it
\* follows (empty for a private user, whose call returns []). Nobody
\* follows itself.
Graphs == {g \in [Users -> SUBSET Users] : \A u \in Users : u \notin g[u]}

\* The seed lists: none, one user, one user twice, two users
SeedLists == {<<>>, <<1>>, <<1, 1>>, <<1, 2>>}

\* The depth arguments
Depths == {0, 1, 2}

\* MockValidApi.CheckRateLimit
ValidAnswer == [err |-> FALSE, remaining |-> 15, reset |-> 0]

\* Lines 47-55: the client is built from valid apis, the seeds are queued
\* with 0 hops.
InitTraversal ==
    /\ Built({"get_friend_ids"}, {[i \in 1 .. NumApis |-> ValidAnswer]})
    /\ apis = <<>>
    /\ threads = <<>>
    /\ pc = "traverse"
    /\ seed \in SeedLists
    /\ depth \in Depths
    /\ friends \in Graphs
    /\ users_queue = [i \in DOMAIN seed |-> <<seed[i], 0>>]
    /\ n_followers = <<>>
    /\ expansions = <<>>
    /\ discovered = <<>>
    /\ result = <<>>

\* Variant: the loop goes on only while more than one entry is queued
queue_left_more(q) == Len(q) > 1

\* Line 56: len(users_queue) > 0
queue_left(q) == Len(q) > 0

\* Variant: only the first user ever counted is queued
should_enqueue_first(n, d, f, nf) == n < d /\ nf = <<>>

\* Variant: users one hop beyond the depth are queued too
should_enqueue_deeper(n, d, f, nf) == n <= d /\ f \notin DOMAIN nf

\* Line 66: n < depth and f not in n_followers
should_enqueue(n, d, f, nf) == n < d /\ f \notin DOMAIN nf

\* Line 68: n_followers[f] += 1 on a defaultdict(int)
count_up(nf, f) ==
    IF f \in DOMAIN nf THEN [nf EXCEPT ![f] = @ + 1] ELSE nf @@ (f :> 1)

\* The orders in which a set can be iterated
Orders(S) ==
    {o \in [1 .. Cardinality(S) -> S] : \A i, j \in DOMAIN o : o[i] = o[j] => i = j}

\* Lines 65-68: the loop over user_friends, iterated in the order given, for
\* a user popped with n hops: <<users_queue, n_followers, discovered>> after
RECURSIVE visit(_, _, _, _, _)
visit(order, n, q, nf, disc) ==
    IF order = <<>> THEN <<q, nf, disc>>
    ELSE LET f == Head(order)
         IN visit(Tail(order), n,
                  IF should_enqueue(n, depth, f, nf)
                  THEN Append(q, <<f, n + 1>>) ELSE q,
                  count_up(nf, f),
                  IF f \in DOMAIN disc THEN disc ELSE disc @@ (f :> n + 1))

\* Variant: the users a private user follows are returned all the same
friend_ids_leak(how, fs) == fs

\* What client.get_friend_ids returns for a user that follows fs: nothing
\* when _parallel_call resolves with the empty not-authorized result
\* (parallel_client.py lines 98-99)
friend_ids(how, fs) == IF how = "empty" THEN {} ELSE fs

\* Lines 56-68: one iteration of the while loop: pop the next entry, fetch
\* the users it follows (the call resolves as how) and go through them.
ExpandWith(how) ==
    /\ pc = "traverse"
    /\ queue_left(users_queue)
    /\ LET u == Head(users_queue)[1]
           n == Head(users_queue)[2]
       IN \E order \in Orders(friend_ids(how, friends[u])) :
             LET r == visit(order, n, Tail(users_queue), n_followers, discovered)
             IN /\ users_queue' = r[1]
                /\ n_followers' = r[2]
                /\ discovered' = r[3]
                /\ expansions' = Append(expansions,
                       [u |-> u, n |-> n,
                        added |-> Len(r[1]) - Len(Tail(users_queue)),
                        how |-> how, counted |-> Len(order)])
    /\ UNCHANGED <<now, sched, frame, method, loc, ret, invoked, apis, threads,
                   seed, depth, friends, result>>

\* The call returns the users followed
Expand == ExpandWith("result")

\* The user is private: the call resolves with the empty result
ExpandPrivate == ExpandWith("empty")

\* Lines 56-63: the entry is popped and the call raises OutOfKeysError,
\* which nothing in calculate_industry_group catches.
Abort ==
    /\ pc = "traverse"
    /\ queue_left(users_queue)
    /\ users_queue' = Tail(users_queue)
    /\ ret' = Raise("OutOfKeysError")
    /\ pc' = "aborted"
    /\ UNCHANGED <<now, sched, fn, params, iters, op, attempted_keys, outcome,
                   hist, method, loc, invoked, apis, threads, seed, depth, friends,
                   n_followers, expansions, discovered, result>>

\* Line 69: the queue is empty, n_followers is returned.
Return ==
    /\ pc = "traverse"
    /\ ~queue_left(users_queue)
    /\ result' = n_followers
    /\ pc' = "traversed"
    /\ UNCHANGED <<now, sched, fn, params, iters, op, attempted_keys, outcome,
                   hist, method, loc, ret, invoked, apis, threads, seed, depth,
                   friends,
                   users_queue, n_followers, expansions, discovered>>

-----------------------------------------------------------------------------
(* Two callers in one _parallel_call each, on one client, without a lock *)

\* The callers, e.g. two threads
Callers == {1, 2}

\* Both calls are for this kind
SharedKind == "GetFriendIDs"

\* The frame of a call that has just been entered
NewCall == [pc |-> "call", n0 |-> 0, iters |-> 0, op |-> 0, keys |-> <<>>,
            outcome |-> NoOutcome, wake |-> 0, touched |-> {}, other |-> {}]

Max(a, b) == IF a > b THEN a ELSE b

\* ParallelTwitterClient(apis) with NumApis apis, and both callers about to
\* run line 70
InitTwoCalls ==
    /\ Built({"get_friend_ids"}, [1 .. NumApis -> ProbeAnswers])
    /\ apis = <<>>
    /\ pc = "idle"
    /\ NoTraversal
    /\ threads = [t \in Callers |-> NewCall]

\* What a step of a caller leaves alone
OneFrame == <<frame, method, loc, ret, invoked, apis, trav>>

\* Lines 70-74 for caller t: the stagger is computed from the queue length
\* and last_call as they are now, and the caller goes to sleep.
TDispatch(t) ==
    /\ threads # <<>>
    /\ threads[t].pc = "call"
    /\ LET n == Len(operators[SharedKind])
       IN IF n = 0
          THEN threads' = [threads EXCEPT ![t].pc = "done",
                                      ![t].outcome = Raise("ZeroDivisionError")]
          ELSE threads' = [threads EXCEPT
                            ![t].pc = "staggering",
                            ![t].n0 = n,
                            ![t].wake = now + stagger_sleep(n, SharedKind, now,
                                                            last_call)]
    /\ UNCHANGED <<now, sched, OneFrame>>

\* Lines 74-81 for caller t: the sleep is over; last_call and the counter
\* are written and the range of the loop is taken from the queue as it is
\* by now.
TStaggered(t) ==
    /\ threads # <<>>
    /\ threads[t].pc = "staggering"
    /\ now' = Max(now, threads[t].wake)
    /\ last_call' = Max(now, threads[t].wake)
    /\ n_requests' = n_requests + 1
    /\ threads' = [threads EXCEPT
                    ![t].pc = "loop",
                    ![t].keys = <<>>,
                    ![t].iters = trial_iterations(Len(operators[SharedKind]))]
    /\ UNCHANGED <<operators, renewal_time, OneFrame>>

\* Lines 83-87 for caller t: pop from the queue as it is by now, and go to
\* sleep for the renewal time.
TPop(t) ==
    /\ threads # <<>>
    /\ threads[t].pc = "loop"
    /\ threads[t].iters > 0
    /\ IF operators[SharedKind] = <<>>
       THEN \* heappop of an empty list
            /\ threads' = [threads EXCEPT ![t].pc = "done",
                                      ![t].outcome = Raise("IndexError")]
            /\ UNCHANGED operators
       ELSE LET r == heappop(renewal_time[SharedKind], operators[SharedKind])
            IN /\ operators' = [operators EXCEPT ![SharedKind] = r[2]]
               /\ threads' = [threads EXCEPT
                               ![t].pc = "sleeping",
                               ![t].op = r[1],
                               ![t].iters = @ - 1,
                               ![t].touched = @ \cup {r[1]},
                               ![t].wake = now + renewal_sleep(
                                              renewal_time[SharedKind][r[1]], now)]
    /\ UNCHANGED <<now, renewal_time, last_call, n_requests, OneFrame>>

\* Line 87 for caller t: the renewal sleep, if any, is over.
TWake(t) ==
    /\ threads # <<>>
    /\ threads[t].pc = "sleeping"
    /\ now' = Max(now, threads[t].wake)
    /\ threads' = [threads EXCEPT ![t].pc = "invoke"]
    /\ UNCHANGED <<sched, OneFrame>>

\* Lines 88-92 for caller t: op.invoke succeeds.
TInvokeOk(t) ==
    /\ threads # <<>>
    /\ threads[t].pc = "invoke"
    /\ \E v \in Responses(SharedKind, <<>>) :
          LET keys == Append(threads[t].keys, threads[t].op)
          IN /\ operators' = [operators EXCEPT ![SharedKind] =
                                 add_all_to_heap(renewal_time[SharedKind], keys, @)]
             /\ threads' = [threads EXCEPT ![t].pc = "done",
                                       ![t].keys = keys,
                                       ![t].outcome = Result(v)]
    /\ UNCHANGED <<now, renewal_time, last_call, n_requests, OneFrame>>

\* Lines 93-101 for caller t: op.invoke raises a TwitterError.
TInvokeFails(t) ==
    /\ threads # <<>>
    /\ threads[t].pc = "invoke"
    /\ \E m \in Messages, p \in ProbeAnswers : \E pm \in ProbeErrors(p) :
          LET ex == invoke_raises(m, p, pm)
              h == threads[t].op
              rts == IF p.err THEN renewal_time[SharedKind]
                     ELSE [renewal_time[SharedKind] EXCEPT
                              ![h] = reset_renewal_time(@, p)]
              keys == attempted_after(threads[t].keys, h, ex)
              oth == IF Taxonomy(ex) = "other" THEN {h} ELSE {}
          IN /\ renewal_time' = [renewal_time EXCEPT ![SharedKind] = rts]
             /\ IF not_authorized_error(ex)
                THEN /\ operators' = [operators EXCEPT ![SharedKind] =
                                         add_all_to_heap(rts, keys, @)]
                     /\ threads' = [threads EXCEPT ![t].pc = "done",
                                               ![t].keys = keys,
                                               ![t].outcome = EmptyResult]
                ELSE /\ threads' = [threads EXCEPT ![t].pc = "loop",
                                               ![t].keys = keys,
                                               ![t].other = @ \cup oth]
                     /\ UNCHANGED operators
    /\ UNCHANGED <<now, last_call, n_requests, OneFrame>>

\* Lines 103-106 for caller t: every iteration failed.
TExhausted(t) ==
    /\ threads # <<>>
    /\ threads[t].pc = "loop"
    /\ threads[t].iters = 0
    /\ operators' = [operators EXCEPT ![SharedKind] =
                        add_all_to_heap(renewal_time[SharedKind], threads[t].keys, @)]
    /\ threads' = [threads EXCEPT ![t].pc = "done",
                              ![t].outcome = Raise("OutOfKeysError")]
    /\ UNCHANGED <<now, renewal_time, last_call, n_requests, OneFrame>>

NextTwoCalls ==
    \/ \E t \in Callers : TDispatch(t)
    \/ \E t \in Callers : TStaggered(t)
    \/ \E t \in Callers : TPop(t)
    \/ \E t \in Callers : TWake(t)
    \/ \E t \in Callers : TInvokeOk(t)
    \/ \E t \in Callers : TInvokeFails(t)
    \/ \E t \in Callers : TExhausted(t)

SpecTwoCalls == InitTwoCalls /\ [][NextTwoCalls]_vars

-----------------------------------------------------------------------------
(* Specifications *)

\* The traversal, every get_friend_ids call of which returns
NextTraversal ==
    \/ Expand
    \/ Return

SpecTraversal == InitTraversal /\ [][NextTraversal]_vars

\* The traversal's loop keeps running until it returns
SpecTraversalFair == SpecTraversal /\ WF_vars(NextTraversal)

\* The traversal, a get_friend_ids call of which returns, finds the user
\* private or runs out of credentials
NextTraversalErr ==
    \/ Expand
    \/ ExpandPrivate
    \/ Abort
    \/ Return

SpecTraversalErr == InitTraversal /\ [][NextTraversalErr]_vars

\* The scheduler under the operations that return its result as it is
Next ==
    \/ Tick
    \/ Dispatch
    \/ Pop
    \/ InvokeOk
    \/ InvokeFails
    \/ Exhausted
    \/ get_friend_ids
    \/ get_favorites
    \/ ReturnDirect

Spec == Init /\ [][Next]_vars

\* ParallelTwitterClient(apis) with the answers of the NumApis apis to the
\* construction probes on record, used for get_friend_ids
InitBuilt ==
    \E answers \in [1 .. NumApis -> ProbeAnswers] :
        /\ Built({"get_friend_ids"}, {answers})
        /\ apis = answers
        /\ threads = <<>>
        /\ pc = "idle"
        /\ NoTraversal

NextBuilt ==
    \/ Tick
    \/ Dispatch
    \/ Pop
    \/ InvokeOk
    \/ InvokeFails
    \/ Exhausted
    \/ get_friend_ids
    \/ ReturnDirect

SpecBuilt == InitBuilt /\ [][NextBuilt]_vars

\* The scheduler under the cursor pagination of get_followers
InitFollowers == ConstructWith({"get_followers"}, NumApis - 1)

NextFollowers ==
    \/ Tick
    \/ Dispatch
    \/ Pop
    \/ InvokeOk
    \/ InvokeFails
    \/ Exhausted
    \/ get_followers
    \/ ReturnFollowers

SpecFollowers == InitFollowers /\ [][NextFollowers]_vars

\* The scheduler under the watermark pagination of get_user_timeline; every
\* step that can be taken is taken in the end (no call blocks for ever).
InitTimeline == ConstructWith({"get_user_timeline"}, NumApis - 1)

NextTimeline ==
    \/ Tick
    \/ Dispatch
    \/ Pop
    \/ InvokeOk
    \/ InvokeFails
    \/ Exhausted
    \/ get_user_timeline
    \/ ReturnTimeline

SpecTimeline == InitTimeline /\ [][NextTimeline]_vars
SpecTimelineFair == SpecTimeline /\ WF_vars(NextTimeline)

\* The caller turns from one of the two operations to the other.
Switch ==
    /\ pc = "idle"
    /\ method' \in DirectMethods \ {method}
    /\ UNCHANGED <<now, sched, frame, loc, ret, invoked, apis, threads, trav>>

\* The scheduler under a caller that mixes operations of two kinds
NextMixed ==
    \/ Tick
    \/ Dispatch
    \/ Pop
    \/ InvokeOk
    \/ InvokeFails
    \/ Exhausted
    \/ get_friend_ids
    \/ get_favorites
    \/ ReturnDirect
    \/ Switch

SpecMixed == InitMixed /\ [][NextMixed]_vars

\* The client of the paged operations: chunked lookups and the timeline
InitPages ==
    ConstructWith({"users_lookup", "statuses_lookup", "get_user_timeline"},
                  NumApis - 1)

\* The scheduler under the paged operations
NextPages ==
    \/ Tick
    \/ Dispatch
    \/ Pop
    \/ InvokeOk
    \/ InvokeFails
    \/ Exhausted
    \/ get_user_timeline
    \/ ReturnTimeline
    \/ lookup
    \/ ReturnLookup

SpecPages == InitPages /\ [][NextPages]_vars

\* The scheduler under every public operation
NextOps ==
    \/ Tick
    \/ Dispatch
    \/ Pop
    \/ InvokeOk
    \/ InvokeFails
    \/ Exhausted
    \/ get_friend_ids
    \/ get_favorites
    \/ ReturnDirect
    \/ get_followers
    \/ ReturnFollowers
    \/ get_user_timeline
    \/ ReturnTimeline
    \/ lookup
    \/ ReturnLookup

SpecOps == InitOps /\ [][NextOps]_vars

-----------------------------------------------------------------------------
(* Vocabulary of the properties: the running or just resolved attempt *)

\* The elements of a list
Elems(seq) == {seq[i] : i \in DOMAIN seq}

\* How often x occurs in a list
Occurrences(seq, x) == Cardinality({i \in DOMAIN seq : seq[i] = x})

\* The attempt has resolved and its outcome is about to reach the caller
Resolved == pc = "returned"

\* The handles the attempt has popped so far
TriedHandles == {hist.tried[i].h : i \in DOMAIN hist.tried}

\* Handles in the queue at dispatch whose renewal time was not ahead of the
\* time of the call
Healthy0 == {h \in Elems(hist.heap0) : hist.rt0[h] <= hist.t0}

\* Handles in the queue at dispatch whose renewal time was still ahead when
\* the trial loop started (after the stagger)
Limited0 == {h \in Elems(hist.heap0) : hist.rt0[h] > hist.t0 + hist.stagger}

\* No iteration of the attempt slept for a renewal time
NoRenewalSleep == \A i \in DOMAIN hist.tried : hist.tried[i].slept = 0

\* Every invocation made so far failed, none of them as not-authorized
AllFailedNotPrivate ==
    \A i \in DOMAIN hist.tried : hist.tried[i].res \in {"rate_limit", "other"}

-----------------------------------------------------------------------------
(* Properties of Scheduler.attempt (_parallel_call) *)

\* C1: an attempt on a non-empty queue resolves in exactly one of three
\* ways: the result of the invocation that succeeded, the empty result after
\* an invocation that failed as not-authorized, or OutOfKeysError after all
\* n handles failed otherwise. Nothing else comes out of it.
C1_ThreeOutcomes ==
    (Resolved /\ hist.n0 > 0) =>
        /\ outcome.how \in {"result", "empty", "OutOfKeysError"}
        /\ outcome.how = "result" =>
              /\ hist.tried # <<>>
              /\ hist.tried[Len(hist.tried)].res = "ok"
        /\ outcome.how = "empty" =>
              /\ hist.tried # <<>>
              /\ hist.tried[Len(hist.tried)].res = "not_authorized"
              /\ outcome.value = <<>>
        /\ outcome.how = "OutOfKeysError" =>
              /\ Len(hist.tried) = hist.n0
              /\ AllFailedNotPrivate

\* C1 witness: a result delivered by the second handle after the first one
\* failed with an unclassified error.
C1_Witness ==
    /\ Resolved
    /\ outcome.how = "result"
    /\ Len(hist.tried) = 2
    /\ hist.tried[1].res = "other"

\* C2 (as claimed): an attempt on an empty queue fails with OutOfKeysError,
\* without sleeping and without invoking anything.
C2_EmptyQueueOutOfKeys ==
    (Resolved /\ hist.n0 = 0) =>
        /\ outcome.how = "OutOfKeysError"
        /\ hist.stagger = 0
        /\ now = hist.t0
        /\ hist.tried = <<>>

\* C3 (as claimed): whenever no attempt is in progress every queue holds as
\* many handles as construction built for it.
C3_QueueSizeFixed ==
    pc \in {"idle", "returned"} =>
        \A k \in OPERATORS :
            Len(operators[k]) = Cardinality(DOMAIN renewal_time[k])

\* C4 (as claimed): when an attempt resolves, every handle it popped has been
\* pushed back exactly once and is in the queue exactly once.
C4_RequeuedOnce ==
    Resolved =>
        \A h \in TriedHandles :
            /\ Occurrences(hist.pushed, h) = 1
            /\ Occurrences(operators[fn], h) = 1

\* C5: an invocation that fails as not-authorized ends the attempt at once:
\* it is the last invocation of the attempt, which returns the empty result
\* and raises nothing.
C5_NotAuthorizedShortCircuits ==
    \A i \in DOMAIN hist.tried :
        hist.tried[i].res = "not_authorized" =>
            /\ i = Len(hist.tried)
            /\ Resolved
            /\ outcome = EmptyResult

\* C5 witness: the empty result after the first of two handles failed as
\* not-authorized; the second handle was never popped.
C5_Witness ==
    /\ Resolved
    /\ outcome = EmptyResult
    /\ hist.n0 = 2
    /\ Len(hist.tried) = 1
    /\ iters = 1
    /\ Len(operators[fn]) = 2

\* C6 (as claimed): a public operation all of whose attempts hit a private
\* target (every one of them returned the not-authorized empty result)
\* completes with an empty result and raises nothing.
C6_PrivateTargetEmpty ==
    (pc = "idle" /\ ret.how # "none" /\ loc.attempts > 0
                 /\ loc.empties = loc.attempts) =>
        ret = Result(<<>>)

C8_HealthyAlwaysSucceeds ==
    (Resolved /\ Healthy0 # {}) =>
        /\ outcome.how \in {"result", "empty"}
        /\ NoRenewalSleep

\* C8 (amended): with at least one handle whose renewal time is not ahead,
\* the first handle tried is such a handle and is invoked without a renewal
\* sleep; when that invocation succeeds the attempt returns a result and its
\* only sleep is the stagger sleep.
C8_FirstHealthySucceeds ==
    (hist.tried # <<>> /\ Healthy0 # {}) =>
        /\ hist.tried[1].h \in Healthy0
        /\ hist.tried[1].slept = 0
        /\ hist.tried[1].res = "ok" =>
              /\ Resolved
              /\ outcome.how = "result"
              /\ NoRenewalSleep
              /\ now = hist.t0 + hist.stagger

\* C8 witness: a result from a healthy handle after a stagger sleep.
C8_Witness ==
    /\ Resolved
    /\ Healthy0 # {}
    /\ outcome.how = "result"
    /\ hist.stagger > 0

\* C9: a handle popped with a renewal time T ahead of the clock (by k) is
\* invoked only once the clock has reached T + 1 second, the attempt having
\* slept k + 1 seconds for it; with a single handle the attempt thus returns
\* at least k + 1 seconds after the pop, with the result when the invocation
\* succeeds.
C9_WaitsForRenewal ==
    /\ \A i \in DOMAIN hist.tried :
          LET e == hist.tried[i]
          IN e.rt > e.t =>
                /\ e.slept >= (e.rt - e.t) + Second
                /\ e.res # "pending" => e.ti >= e.rt + Second
    /\ (pc = "invoke" /\ hist.tried[Len(hist.tried)].rt > hist.tried[Len(hist.tried)].t)
          => now >= hist.tried[Len(hist.tried)].rt + Second
    /\ (Resolved /\ hist.n0 = 1 /\ Len(hist.tried) = 1
                 /\ hist.tried[1].rt > hist.tried[1].t) =>
          /\ now - hist.tried[1].t >= (hist.tried[1].rt - hist.tried[1].t) + Second
          /\ hist.tried[1].res = "ok" => outcome.how = "result"

\* C9 witness: the only handle was rate limited when popped and the attempt
\* has returned its result.
C9_Witness ==
    /\ Resolved
    /\ hist.n0 = 1
    /\ Len(hist.tried) = 1
    /\ hist.tried[1].rt > hist.tried[1].t
    /\ outcome.how = "result"

\* C10: when every invocation of an attempt failed and none as
\* not-authorized, each of the n handles of the queue was invoked exactly
\* once and the attempt fails with OutOfKeysError; and OutOfKeysError after
\* all n failed is the only error an attempt on a non-empty queue raises.
C10_OnlyExhaustionPropagates ==
    (Resolved /\ hist.n0 > 0) =>
        /\ AllFailedNotPrivate =>
              /\ outcome.how = "OutOfKeysError"
              /\ Len(hist.tried) = hist.n0
              /\ \A h \in Elems(hist.heap0) :
                    Cardinality({i \in DOMAIN hist.tried : hist.tried[i].h = h}) = 1
        /\ Raised(outcome) =>
              /\ outcome.how = "OutOfKeysError"
              /\ AllFailedNotPrivate
              /\ Len(hist.tried) = hist.n0

\* C10 witness: two handles, one failed as rate limited and one with an
\* unclassified error, and the attempt raised OutOfKeysError.
C10_Witness ==
    /\ Resolved
    /\ outcome.how = "OutOfKeysError"
    /\ hist.n0 = 2
    /\ {hist.tried[i].res : i \in DOMAIN hist.tried} = {"rate_limit", "other"}

-----------------------------------------------------------------------------
(* Properties of the stagger and of the rotation *)

\* The attempt has passed its dispatch (lines 70-81) on a non-empty queue
Dispatched == pc \in {"loop", "invoke", "returned"} /\ hist.n0 > 0

\* 60 / (n * rpm) seconds for the attempt under way, in ticks
Spacing == Minute \div (hist.n0 * reqs_per_minute(fn))

\* C11: the dispatch time an attempt records is at least the dispatch time
\* recorded before it plus 60 / (n * rpm) of its own kind, whatever the kind
\* of the attempt before; with less than that spacing elapsed the attempt
\* slept for the remainder, otherwise it did not sleep for the stagger.
C11_GlobalStagger ==
    Dispatched =>
        /\ Spacing * hist.n0 * reqs_per_minute(fn) = Minute
        /\ last_call = hist.t0 + hist.stagger
        /\ last_call >= hist.last0 + Spacing
        /\ hist.t0 - hist.last0 < Spacing =>
              hist.stagger = Spacing - (hist.t0 - hist.last0)
        /\ hist.t0 - hist.last0 >= Spacing => hist.stagger = 0

\* C11 witness: an attempt that follows an attempt of the other kind, came
\* some time after it but too early, and slept for the remainder.
C11_Witness ==
    /\ pc = "loop"
    /\ hist.n0 > 0
    /\ hist.tried = <<>>
    /\ invoked.k \notin {"none", fn}
    /\ hist.t0 - hist.last0 > 0
    /\ hist.stagger > 0

\* C12 (as claimed, for a kind of one request per minute): a handle about to
\* be invoked was not invoked within the 60 seconds before. (Two
\* invocations exactly 60 seconds apart are let pass.)
C12_AtMostRpmPerMinute ==
    (pc = "invoke" /\ invoked.k = fn /\ invoked.h = op
                   /\ reqs_per_minute(fn) = 1) =>
        now - invoked.t >= Minute

\* C13: within one attempt no handle is invoked twice, at most n invocations
\* are made, at most one succeeds, and a successful or a not-authorized
\* invocation is the last one.
C13_OneAfterAnother ==
    /\ \A i, j \in DOMAIN hist.tried :
          hist.tried[i].h = hist.tried[j].h => i = j
    /\ Len(hist.tried) <= hist.n0
    /\ Cardinality({i \in DOMAIN hist.tried : hist.tried[i].res = "ok"}) <= 1
    /\ \A i \in DOMAIN hist.tried :
          hist.tried[i].res \in {"ok", "not_authorized", "pending"} =>
              i = Len(hist.tried)

\* C13 witness: the second of two handles succeeded after the first failed.
C13_Witness ==
    /\ Resolved
    /\ hist.n0 = 2
    /\ Len(hist.tried) = 2
    /\ hist.tried[1].res = "rate_limit"
    /\ hist.tried[2].res = "ok"

-----------------------------------------------------------------------------
(* Properties of the paged operations *)

\* The lists of a list of lists, joined in order
RECURSIVE Flatten(_)
Flatten(seqs) ==
    IF seqs = <<>> THEN <<>> ELSE Head(seqs) \o Flatten(Tail(seqs))

\* A chunked lookup is the operation of this client
IsLookup == method \in {"users_lookup", "statuses_lookup"}

\* The chunked lookup has returned its list
LookupDone == IsLookup /\ pc = "idle" /\ ret.how = "result"

\* ceil(len / 100)
CeilChunks(len) == (len + 99) \div 100

\* C14: a chunked lookup of L ids never makes more than ceil(L / 100)
\* scheduler calls and has made exactly that many when it returns: none, and
\* an empty result, for L = 0; two, of 100 and of 50 ids, for L = 150.
C14_ChunkCount ==
    IsLookup =>
        /\ Len(loc.sent) <= CeilChunks(Len(loc.ids))
        /\ LookupDone =>
              /\ loc.attempts = CeilChunks(Len(loc.ids))
              /\ Len(loc.sent) = loc.attempts
              /\ Len(loc.ids) = 0 => (loc.attempts = 0 /\ ret.value = <<>>)
              /\ Len(loc.ids) = 150 =>
                    /\ loc.attempts = 2
                    /\ Len(loc.sent[1]) = 100
                    /\ Len(loc.sent[2]) = 50

\* C14 witness: a lookup of 150 ids has returned.
C14_Witness ==
    /\ LookupDone
    /\ Len(loc.ids) = 150
    /\ Len(loc.sent) = 2

\* C15: the i-th call of a chunked lookup carries ids[100*i .. 100*(i+1)) of
\* the input, in input order; when the lookup returns the chunks sent make up
\* the input, each id once, and the result is the per-chunk results joined
\* in the order of the calls.
C15_ChunksInOrder ==
    IsLookup =>
        /\ \A c \in DOMAIN loc.sent :
              LET from == 100 * (c - 1)
                  upto == IF 100 * c < Len(loc.ids) THEN 100 * c ELSE Len(loc.ids)
              IN loc.sent[c] = [j \in 1 .. (upto - from) |-> loc.ids[from + j]]
        /\ LookupDone =>
              /\ Flatten(loc.sent) = loc.ids
              /\ Len(loc.got) = Len(loc.sent)
              /\ ret.value = Flatten(loc.got)

\* C15 witness: a lookup of 150 ids whose two calls both answered has
\* returned all of them.
C15_Witness ==
    /\ LookupDone
    /\ Len(loc.ids) = 150
    /\ Len(loc.got) = 2
    /\ loc.got[1] # <<>>
    /\ loc.got[2] # <<>>
    /\ ret.value = loc.ids

\* The timeline is the operation of this client
IsTimeline == method = "get_user_timeline"

\* Every page received so far is in descending id order and holds only ids
\* at or below the max_id it was asked with (0: none)
PagesHonest ==
    \A c \in DOMAIN loc.got :
        /\ \A i, j \in DOMAIN loc.got[c] : i < j => loc.got[c][i] > loc.got[c][j]
        /\ loc.sent[c] # 0 => \A i \in DOMAIN loc.got[c] : loc.got[c][i] <= loc.sent[c]

\* No element occurs twice in a list
NoDuplicates(seq) == \A i, j \in DOMAIN seq : seq[i] = seq[j] => i = j

\* A page without the post that equals the max_id it was asked with
WithoutWatermark(c) ==
    SelectSeq(loc.got[c], LAMBDA x : x # loc.sent[c])

\* C16: when every page is in descending order and at or below the watermark
\* asked for, the posts gathered hold no post twice: they are the pages in
\* order, each without the post that equals its watermark; pages [3,2] and
\* [2,1] merge to exactly [3,2,1].
C16_NoDuplicatePosts ==
    (IsTimeline /\ PagesHonest) =>
        /\ NoDuplicates(loc.acc)
        /\ loc.acc = Flatten([c \in DOMAIN loc.got |-> WithoutWatermark(c)])
        /\ (pc = "idle" /\ ret.how = "result") => ret.value = loc.acc
        /\ (pc = "idle" /\ ret.how = "result"
                        /\ loc.got = << <<3, 2>>, <<2, 1>> >>) =>
              ret.value = <<3, 2, 1>>

\* C16 witness: the timeline returned after the pages [3,2] and [2,1], the
\* second asked with watermark 2.
C16_Witness ==
    /\ IsTimeline
    /\ pc = "idle"
    /\ ret.how = "result"
    /\ loc.sent = <<0, 2>>
    /\ loc.got = << <<3, 2>>, <<2, 1>> >>

-----------------------------------------------------------------------------
(* Properties of the traversal *)

\* The users expanded so far: popped, and their friends fetched
ExpandedUsers == {expansions[i].u : i \in DOMAIN expansions}

\* The users of the seed list
SeedUsers == {seed[i] : i \in DOMAIN seed}

\* The users waiting in the frontier
QueuedUsers == {users_queue[i][1] : i \in DOMAIN users_queue}

\* The traversal has returned
Traversed == pc = "traversed"

\* C17 (as claimed, for seed lists without a repeated id): the map returned
\* has a key for exactly the users that some expanded user follows, and maps
\* each to the number of distinct expanded users that follow it.
C17_InDegree ==
    (Traversed /\ NoDuplicates(seed)) =>
        result = [f \in {g \in Users : \E u \in ExpandedUsers : g \in friends[u]} |->
                     Cardinality({u \in ExpandedUsers : f \in friends[u]})]

\* C18 (as claimed): no user is expanded twice, and every expansion happens
\* at the hops of the user's first discovery (0 for a seed).
C18_ExpandedOnce ==
    /\ \A i, j \in DOMAIN expansions :
          expansions[i].u = expansions[j].u => i = j
    /\ \A i \in DOMAIN expansions :
          expansions[i].n = IF expansions[i].u \in SeedUsers THEN 0
                            ELSE discovered[expansions[i].u]

\* C19: every frontier entry has between 0 and depth hops; expanding an
\* entry of depth hops adds no frontier entry; a user that is no seed and
\* was first counted while an entry of depth hops was expanded is a key of
\* the map, is never queued and its friends are never fetched.
C19_DepthBound ==
    /\ \A i \in DOMAIN users_queue :
          0 <= users_queue[i][2] /\ users_queue[i][2] <= depth
    /\ \A i \in DOMAIN expansions :
          /\ 0 <= expansions[i].n /\ expansions[i].n <= depth
          /\ expansions[i].n = depth => expansions[i].added = 0
    /\ \A f \in DOMAIN discovered :
          (discovered[f] = depth + 1 /\ f \notin SeedUsers) =>
              /\ f \in DOMAIN n_followers
              /\ f \notin QueuedUsers
              /\ f \notin ExpandedUsers
              /\ Traversed => f \in DOMAIN result

\* C19 witness: a traversal of depth 1 or more has returned, and a user that
\* follows somebody was first counted one hop beyond the depth.
C19_Witness ==
    /\ Traversed
    /\ depth >= 1
    /\ \E f \in DOMAIN discovered :
          /\ discovered[f] = depth + 1
          /\ f \notin SeedUsers
          /\ friends[f] # {}
          /\ f \in DOMAIN result

\* C20: the traversal terminates: eventually the frontier is empty and the
\* map of counts has been returned.
C20_Terminates ==
    <>(Traversed /\ users_queue = <<>> /\ result = n_followers)

\* C20 witness: the traversal has returned on a graph with a cycle through
\* the seed, having expanded the seed a second time.
C20_Witness ==
    /\ Traversed
    /\ seed = <<1>>
    /\ 2 \in friends[1]
    /\ 1 \in friends[2]
    /\ depth = 2
    /\ Len(expansions) >= 3
    /\ users_queue = <<>>

-----------------------------------------------------------------------------
(* Requeueing and pop order *)

\* The answers of the iterations of the running attempt that have one
Answers == [i \in DOMAIN hist.tried |-> hist.tried[i].res]

\* C21: a handle whose invocation failed with an error that is neither
\* not-authorized nor rate-limited is not in the queue of that kind for the
\* rest of the attempt, and not when the attempt has resolved, whichever way
\* it resolves.
C21_OtherFailureDropped ==
    \A i \in DOMAIN hist.tried :
        hist.tried[i].res = "other" =>
            /\ hist.tried[i].h \notin Elems(operators[fn])
            /\ Resolved => hist.tried[i].h \notin Elems(hist.pushed)

\* C21 witness: an attempt has resolved with a result after a handle failed
\* with another error, and only the handle that succeeded is in the queue.
C21_Witness ==
    /\ Resolved
    /\ outcome.how = "result"
    /\ Len(hist.tried) = 2
    /\ hist.tried[1].res = "other"
    /\ hist.tried[2].res = "ok"
    /\ operators[fn] = <<hist.tried[2].h>>

\* C22: when an attempt succeeds after zero or more rate-limited failures
\* and no other kind of failure, the queue after the call holds exactly the
\* handles it held before the call, each exactly once.
C22_QueuePreserved ==
    (/\ Resolved
     /\ outcome.how = "result"
     /\ \A i \in DOMAIN hist.tried : hist.tried[i].res \in {"rate_limit", "ok"}) =>
        /\ Elems(operators[fn]) = Elems(hist.heap0)
        /\ Len(operators[fn]) = Len(hist.heap0)
        /\ \A h \in Elems(hist.heap0) : Occurrences(operators[fn], h) = 1

\* C22 witness: an attempt on a queue of two handles has succeeded on the
\* second handle after the first was rate limited.
C22_Witness ==
    /\ Resolved
    /\ outcome.how = "result"
    /\ Answers = <<"rate_limit", "ok">>
    /\ hist.n0 = 2
    /\ Elems(operators[fn]) = Elems(hist.heap0)

\* C23: each pop yields a handle whose renewal time is minimal among the
\* handles that were in the queue it was popped from, after any sequence of
\* earlier calls; the head of every queue has a minimal renewal time.
C23_PopsMinimalRenewal ==
    /\ pc = "invoke" =>
          \A h \in Elems(operators[fn]) :
              hist.tried[Len(hist.tried)].rt <= renewal_time[fn][h]
    /\ \A k \in DOMAIN operators :
          \A i \in DOMAIN operators[k] :
              renewal_time[k][operators[k][1]] <= renewal_time[k][operators[k][i]]

\* C23 witness: after earlier calls, a handle has been popped whose renewal
\* time is smaller than that of a handle with a smaller id left in the queue.
C23_Witness ==
    /\ pc = "invoke"
    /\ n_requests >= 2
    /\ \E h \in Elems(operators[fn]) :
          /\ h < op
          /\ renewal_time[fn][op] < renewal_time[fn][h]

\* C24 (as claimed): among the handles of a queue with equal renewal times,
\* the one with the smaller id is popped first.
C24_TiesById ==
    pc = "invoke" =>
        \A h \in Elems(operators[fn]) :
            renewal_time[fn][h] = hist.tried[Len(hist.tried)].rt => op < h

\* C24: the first pop of an attempt yields the handle at the head of the
\* queue list, whose renewal time is minimal; ids take no part in the order.
C24_TiesByPosition ==
    (pc = "invoke" /\ Len(hist.tried) = 1) =>
        /\ op = hist.heap0[1]
        /\ \A h \in Elems(hist.heap0) : hist.rt0[op] <= hist.rt0[h]

\* C24 witness: the first pop of an attempt has yielded a handle while a
\* handle with the same renewal time and a smaller id stays in the queue.
C24_Witness ==
    /\ pc = "invoke"
    /\ Len(hist.tried) = 1
    /\ \E h \in Elems(operators[fn]) :
          /\ h < op
          /\ hist.rt0[h] = hist.rt0[op]

-----------------------------------------------------------------------------
(* Renewal times *)

\* The latest iteration of the running attempt
LastTried == hist.tried[Len(hist.tried)]

\* The latest iteration of the running attempt has failed, and its handle
\* has not been pushed back or popped again since
JustFailed ==
    /\ pc \in {"loop", "returned"}
    /\ hist.tried # <<>>
    /\ LastTried.res \in {"not_authorized", "rate_limit", "other"}

\* C25: the renewal time of a handle is 0 or a reported reset time from
\* construction on, and changes only in the step in which an invocation of
\* that handle fails, to the reset time its probe reports; a successful
\* invocation, a pop, a push, a stagger sleep and a renewal sleep leave
\* every renewal time unchanged.
C25_RenewalOnlyByProbe ==
    /\ \A k \in DOMAIN renewal_time : \A h \in DOMAIN renewal_time[k] :
          renewal_time[k][h] \in {0} \cup ResetTimes
    /\ [][renewal_time' # renewal_time =>
            /\ pc = "invoke"
            /\ pc' \in {"loop", "returned"}
            /\ hist'.tried[Len(hist'.tried)].res
                  \in {"not_authorized", "rate_limit", "other"}
            /\ ~hist'.probe.err
            /\ hist'.probe.remaining = 0
            /\ \A k \in DOMAIN renewal_time : \A h \in DOMAIN renewal_time[k] :
                  renewal_time'[k][h] # renewal_time[k][h] =>
                      /\ k = fn
                      /\ h = op
                      /\ renewal_time'[k][h] = hist'.probe.reset]_vars

\* C25 witness: a handle built with renewal time 0 has failed an invocation
\* and the probe has given it a renewal time.
C25_Witness ==
    /\ JustFailed
    /\ LastTried.rt = 0
    /\ renewal_time[fn][LastTried.h] \in ResetTimes

\* C26 (as claimed): after a failed invocation and its probe, the renewal
\* time of the handle is the reset time the probe reported.
C26_RefreshedByProbe ==
    (JustFailed /\ ~hist.probe.err) =>
        /\ hist.probe # NoProbe
        /\ renewal_time[fn][LastTried.h] = hist.probe.reset

\* C26: every failed invocation, whatever its classification, comes with one
\* probe of that handle; the renewal time of the handle is then the reported
\* reset time if the probe reports no remaining calls, and is what it was
\* before if the probe reports remaining calls or fails itself.
C26_RefreshedWhenNoneLeft ==
    JustFailed =>
        /\ hist.probe # NoProbe
        /\ renewal_time[fn][LastTried.h] =
              IF ~hist.probe.err /\ hist.probe.remaining = 0
              THEN hist.probe.reset ELSE LastTried.rt

\* C26 witness: a handle with a renewal time other than 0 has failed an
\* invocation, the probe reported remaining calls, and the renewal time is
\* still what it was.
C26_Witness ==
    /\ JustFailed
    /\ ~hist.probe.err
    /\ hist.probe.remaining > 0
    /\ LastTried.rt # 0
    /\ renewal_time[fn][LastTried.h] = LastTried.rt

\* The credentials whose construction probe did not raise
Survivors == {i \in DOMAIN apis : ~apis[i].err}

\* The id of the handle built from credential i: the number of handles built
\* before it
IdOf(i) == Cardinality({j \in Survivors : j < i})

\* C27: before the first call, the queue of every kind holds one handle per
\* credential whose probe succeeded and none for a credential whose probe
\* raised; the renewal time of a handle is the reset time its probe reported
\* when it reported no remaining calls, and 0 otherwise. The client is built
\* whatever the probes answer.
C27_OneHandlePerProbedCredential ==
    n_requests = 0 =>
        \A k \in OPERATORS :
            /\ Len(operators[k]) = Cardinality(Survivors)
            /\ Elems(operators[k]) = {IdOf(i) : i \in Survivors}
            /\ DOMAIN renewal_time[k] = {IdOf(i) : i \in Survivors}
            /\ \A i \in Survivors :
                  renewal_time[k][IdOf(i)] =
                      IF apis[i].remaining = 0 THEN apis[i].reset ELSE 0

\* C27 witness: a client built from a credential whose probe raised and one
\* whose probe reported no remaining calls has a single handle in every
\* queue, with the reported reset time.
C27_Witness ==
    /\ n_requests = 0
    /\ pc = "idle"
    /\ apis[1].err
    /\ ~apis[NumApis].err
    /\ apis[NumApis].remaining = 0
    /\ \A k \in OPERATORS :
          /\ Len(operators[k]) < NumApis
          /\ renewal_time[k][IdOf(NumApis)] \in ResetTimes

-----------------------------------------------------------------------------
(* Pagination *)

IsFollowers == method = "get_followers"

RECURSIVE RawCount(_)
\* The number of ids in the first c pages received, as the service sent them
RawCount(c) == IF c = 0 THEN 0 ELSE RawCount(c - 1) + Len(loc.got[c][3])

EndsEarly(c) ==
    \/ loc.got[c] = <<>>
    \/ Len(loc.got[c]) = 1 /\ loc.got[c][1] = loc.sent[c]

\* The number of posts page c adds to the posts returned
Kept(c) ==
    IF EndsEarly(c) THEN 0
    ELSE Len(loc.got[c]) - (IF loc.got[c][1] = loc.sent[c] THEN 1 ELSE 0)

RECURSIVE KeptUpTo(_)
\* The number of posts the first c pages add
KeptUpTo(c) == IF c = 0 THEN 0 ELSE KeptUpTo(c - 1) + Kept(c)

\* C29: as soon as a page is empty, or is a single post whose id is the
\* watermark the page was asked with, the watermark pagination has returned
\* the posts of the pages before, no further call is made and the page adds
\* nothing; every other page adds its posts, less the watermark post.
C29_StopsOnSeenPage ==
    IsTimeline =>
        /\ Len(loc.acc) = KeptUpTo(Len(loc.got))
        /\ \A c \in DOMAIN loc.got :
              EndsEarly(c) =>
                  /\ c = Len(loc.got)
                  /\ Len(loc.sent) = c
                  /\ loc.calls = c - 1
                  /\ pc = "idle"
                  /\ ret = Result(loc.acc)
                  /\ Len(loc.acc) = KeptUpTo(c - 1)

\* C29 witness: the second page was a single post, the watermark left by
\* the first page, and the pagination has returned the post of the first
\* page although fewer than the minimum.
C29_Witness ==
    /\ IsTimeline
    /\ pc = "idle"
    /\ Len(loc.got) = 2
    /\ loc.got[2] = <<loc.sent[2]>>
    /\ ret = Result(loc.got[1])
    /\ Len(ret.value) < loc.min_count

\* The model explores no further call of the scheduler
RequestCapReached == pc = "call" /\ n_requests = MaxRequests

\* C30: the watermark pagination makes at most max_requests calls of the
\* scheduler, the calls that end it early included; it makes none when the
\* minimum count is 0 or less or the budget is 0; it makes a further call
\* only while the posts accumulated are fewer than the minimum; and once
\* entered it returns or raises, whatever the service answers (as far as the
\* model explores calls).
C30_TimelineTerminates ==
    /\ [](IsTimeline =>
            /\ Len(loc.sent) <= loc.max_requests
            /\ (loc.min_count <= 0 \/ loc.max_requests = 0) =>
                  /\ loc.sent = <<>>
                  /\ pc = "idle"
                  /\ ret \in {NoOutcome, Result(<<>>)}
            /\ \A c \in DOMAIN loc.sent :
                  /\ KeptUpTo(c - 1) < loc.min_count
                  /\ c - 1 < loc.max_requests
            /\ loc.calls <= Len(loc.got))
    /\ [](pc # "idle" => <>(pc = "idle" \/ RequestCapReached))

\* C30 witness: with a budget of one call and a minimum of three posts, the
\* pagination has returned the two posts of the only call it made.
C30_Witness ==
    /\ IsTimeline
    /\ pc = "idle"
    /\ loc.max_requests = 1
    /\ loc.min_count = 3
    /\ Len(loc.sent) = 1
    /\ Len(loc.got) = 1
    /\ Len(ret.value) = 2
    /\ ret.how = "result"

\* Page c as it is accumulated: without its first post when that is the
\* watermark the page was asked with
KeptPage(c) ==
    IF loc.got[c][1] = loc.sent[c] THEN Tail(loc.got[c]) ELSE loc.got[c]

\* The watermark after page c was accumulated: what the next call was made
\* with, or what the pagination ended with
WatermarkAfter(c) ==
    IF c < Len(loc.sent) THEN loc.sent[c + 1] ELSE loc.max_id

\* C31: after each accumulated page the watermark is the smallest id of the
\* page as accumulated; when the page (a list that holds no post twice)
\* holds only ids at or below the watermark it was asked with, the new
\* watermark is strictly below that one.
C31_WatermarkDecreases ==
    IsTimeline =>
        \A c \in DOMAIN loc.got :
            ~EndsEarly(c) =>
                /\ WatermarkAfter(c) \in Elems(KeptPage(c))
                /\ \A x \in Elems(KeptPage(c)) : WatermarkAfter(c) <= x
                /\ (/\ loc.sent[c] # 0
                    /\ NoDuplicates(loc.got[c])
                    /\ \A x \in Elems(loc.got[c]) : x <= loc.sent[c]) =>
                       WatermarkAfter(c) < loc.sent[c]

\* C31 witness: three calls were made, each with a watermark strictly below
\* the one before, and the second page began with its watermark.
C31_Witness ==
    /\ IsTimeline
    /\ Len(loc.sent) = 3
    /\ Len(loc.got) >= 2
    /\ loc.sent[2] # 0
    /\ loc.got[2][1] = loc.sent[2]
    /\ loc.sent[3] < loc.sent[2]

\* C37: a page that is accumulated is not empty once the watermark post is
\* dropped: the smallest id is never taken of an empty page, and the posts
\* gathered are at least as many as the pages accumulated.
C37_AccumulatedPageNonEmpty ==
    IsTimeline =>
        /\ ret.how # "ValueError"
        /\ \A c \in DOMAIN loc.got : ~EndsEarly(c) => KeptPage(c) # <<>>
        /\ loc.calls <= Len(loc.acc)

\* C37 witness: two pages were accumulated, the second of two posts of which
\* the first was its watermark, so that it added exactly one post.
C37_Witness ==
    /\ IsTimeline
    /\ loc.calls = 2
    /\ Len(loc.got) = 2
    /\ Len(loc.got[2]) = 2
    /\ loc.got[2][1] = loc.sent[2]
    /\ Len(loc.acc) = Len(loc.got[1]) + 1

-----------------------------------------------------------------------------
(* The traversal under private users and failing calls *)

RECURSIVE SumOf(_)
\* The sum of the values of a map of counts
SumOf(nf) ==
    IF DOMAIN nf = {} THEN 0
    ELSE LET k == CHOOSE x \in DOMAIN nf : TRUE
         IN nf[k] + SumOf([x \in DOMAIN nf \ {k} |-> nf[x]])

RECURSIVE EdgesSeen(_)
\* The number of edges out of the first i entries expanded, those not
\* counted whose call resolved with the empty result
EdgesSeen(i) ==
    IF i = 0 THEN 0
    ELSE EdgesSeen(i - 1) + (IF expansions[i].how = "empty" THEN 0
                              ELSE Cardinality(friends[expansions[i].u]))

\* C34: an entry whose call resolves with the empty not-authorized result
\* adds no counts and no frontier entries, and the traversal goes on until
\* the frontier is empty; a call that fails with OutOfKeysError ends the
\* traversal with that failure and no map is returned.
C34_PrivateSkippedFailureAborts ==
    /\ SumOf(n_followers) = EdgesSeen(Len(expansions))
    /\ \A i \in DOMAIN expansions :
          expansions[i].how = "empty" =>
              expansions[i].added = 0 /\ expansions[i].counted = 0
    /\ pc = "traversed" => users_queue = <<>> /\ result = n_followers
    /\ pc = "aborted" <=> ret = Raise("OutOfKeysError")
    /\ pc = "aborted" => result = <<>>

\* C34 witness: the traversal has returned a map with counts although the
\* call for a user that follows somebody resolved with the empty result,
\* and another entry was expanded after it.
C34_Witness ==
    /\ pc = "traversed"
    /\ DOMAIN result # {}
    /\ \E i \in DOMAIN expansions :
          /\ expansions[i].how = "empty"
          /\ friends[expansions[i].u] # {}
          /\ i < Len(expansions)
          /\ expansions[Len(expansions)].counted > 0

-----------------------------------------------------------------------------
(* Order of iteration *)

RECURSIVE Ascending(_)
\* The elements of a set of numbers in ascending order
Ascending(S) ==
    IF S = {} THEN <<>>
    ELSE LET m == CHOOSE x \in S : \A y \in S : x <= y
         IN <<m>> \o Ascending(S \ {m})

RECURSIVE AscendingRun(_, _, _)
\* The traversal from frontier q and counts nf when every set of friends is
\* iterated in ascending order: <<the map returned, the users expanded>>
AscendingRun(q, nf, exps) ==
    IF q = <<>> THEN <<nf, exps>>
    ELSE LET r == visit(Ascending(friends[Head(q)[1]]), Head(q)[2], Tail(q),
                        nf, <<>>)
         IN AscendingRun(r[1], r[2], Append(exps, Head(q)[1]))

\* The users expanded so far, in order
ExpandedList == [i \in DOMAIN expansions |-> expansions[i].u]

\* C35: whatever the orders in which the sets of friends were iterated, the
\* map returned and the number of times each user was expanded are those of
\* the traversal of the same seed list, depth and graph that iterates every
\* set in ascending order.
C35_OrderIndependent ==
    Traversed =>
        LET ref == AscendingRun([i \in DOMAIN seed |-> <<seed[i], 0>>], <<>>, <<>>)
        IN /\ result = ref[1]
           /\ \A u \in Users :
                 Occurrences(ExpandedList, u) = Occurrences(ref[2], u)

\* C35 witness: a traversal has returned in which the friends of the seed
\* were queued in descending order, and each of them counted a user the
\* other had counted or would count.
C35_Witness ==
    /\ Traversed
    /\ depth = 2
    /\ Len(expansions) >= 3
    /\ expansions[2].u > expansions[3].u
    /\ expansions[2].n = 1
    /\ expansions[3].n = 1
    /\ friends[expansions[2].u] \cap friends[expansions[3].u] # {}

-----------------------------------------------------------------------------
(* Queues over a sequence of calls *)

\* The handles of kind k the running attempt holds outside the queue: those
\* it will push back and the one it is invoking
InFlight(k) ==
    IF k = fn /\ pc \in {"loop", "invoke"}
    THEN Elems(attempted_keys) \cup (IF pc = "invoke" THEN {op} ELSE {})
    ELSE {}

\* The handles of kind k that are in the queue or will be pushed back
Live(k) == Elems(operators[k]) \cup InFlight(k)

\* How many they are, counted with repetition
LiveCount(k) ==
    Len(operators[k])
      + (IF k = fn /\ pc \in {"loop", "invoke"}
         THEN Len(attempted_keys) + (IF pc = "invoke" THEN 1 ELSE 0) ELSE 0)

\* C32: no step brings a handle into a queue that was neither in it nor held
\* by the running attempt, so a dropped handle never comes back: the handles
\* of each kind (in the queue between calls) only ever get fewer, no handle
\* is in a queue twice, and an empty queue stays empty.
C32_QueuesOnlyShrink ==
    /\ [](\A k \in DOMAIN operators : NoDuplicates(operators[k]))
    /\ [][\A k \in DOMAIN operators :
             /\ Live(k)' \subseteq Live(k)
             /\ LiveCount(k)' <= LiveCount(k)
             /\ (pc = "idle" /\ operators[k] = <<>>) => operators'[k] = <<>>]_vars

\* C32 witness: after a call that was dispatched, a later call of the same
\* kind has found the queue empty, and has left it empty.
C32_Witness ==
    /\ Resolved
    /\ n_requests >= 1
    /\ hist.n0 = 0
    /\ outcome = Raise("ZeroDivisionError")
    /\ operators[fn] = <<>>

\* The queues and renewal times of the kinds other than the one of the
\* attempt are what they were when the attempt was entered
OtherKindsKept ==
    \A k \in DOMAIN operators \ {fn} :
        /\ operators[k] = hist.ops0[k]
        /\ renewal_time[k] = hist.rts0[k]

\* C33 (as claimed): when an attempt has resolved, whatever its outcome, the
\* queues and renewal times of every other kind are unchanged and the
\* request counter is one more than when the attempt was entered.
C33_FrameAndCounter ==
    Resolved =>
        /\ OtherKindsKept
        /\ n_requests = hist.requests0 + 1

-----------------------------------------------------------------------------
(* Two interleaved calls *)

\* C36 (as claimed): when two calls for the same kind, both entered on a
\* queue that was not empty, are interleaved, each resolves to a result,
\* the empty result or OutOfKeysError; no handle is being invoked by both;
\* and once both have resolved, every handle they popped (other than one
\* dropped for an unclassified error) is in the queue exactly once.
C36_InterleavedCallsSafe ==
    threads # <<>> =>
        /\ \A t \in Callers :
              (threads[t].pc = "done" /\ threads[t].n0 > 0) =>
                  threads[t].outcome.how \in {"result", "empty", "OutOfKeysError"}
        /\ \A t, u \in Callers :
              (t # u /\ threads[t].pc \in {"sleeping", "invoke"}
                     /\ threads[u].pc \in {"sleeping", "invoke"}) =>
                  threads[t].op # threads[u].op
        /\ (\A t \in Callers : threads[t].pc = "done" /\ threads[t].n0 > 0) =>
              \A t \in Callers : \A h \in threads[t].touched \ threads[t].other :
                  Occurrences(operators[SharedKind], h) = 1

\* The handles caller t holds outside the queue
Held(t) ==
    (IF threads[t].pc \in {"loop", "sleeping", "invoke"}
     THEN Elems(threads[t].keys) ELSE {})
    \cup (IF threads[t].pc \in {"sleeping", "invoke"} THEN {threads[t].op} ELSE {})

\* Caller t has resolved the way a call on its own can
ResolvedAlone(t) ==
    /\ threads[t].pc = "done"
    /\ threads[t].outcome.how \in {"result", "empty", "OutOfKeysError"}

\* C36: when two calls for the same kind are interleaved (each heap
\* operation on its own being atomic), a call can also fail with IndexError,
\* popping from a queue that was not empty when it was entered and that the
\* other call has emptied. No handle is held by both calls or is in the
\* queue while held or twice; once both calls have resolved the way a call
\* on its own can, every handle they popped and did not drop for an
\* unclassified error is in the queue exactly once.
C36_HandlesNeverShared ==
    threads # <<>> =>
        /\ \A t \in Callers :
              threads[t].pc = "done" =>
                  /\ threads[t].outcome.how \in
                        {"result", "empty", "OutOfKeysError", "IndexError",
                         "ZeroDivisionError"}
                  /\ threads[t].outcome.how = "IndexError" =>
                        /\ threads[t].n0 > 0
                        /\ \E u \in Callers \ {t} : threads[u].touched # {}
        /\ \A t, u \in Callers : t # u => Held(t) \cap Held(u) = {}
        /\ \A t \in Callers : Held(t) \cap Elems(operators[SharedKind]) = {}
        /\ NoDuplicates(operators[SharedKind])
        /\ (\A t \in Callers : ResolvedAlone(t)) =>
              \A h \in UNION {threads[t].touched \ threads[t].other : t \in Callers}
                        \ UNION {threads[t].other : t \in Callers} :
                  Occurrences(operators[SharedKind], h) = 1

\* C36 witness: both calls were entered on a queue of two handles; one has
\* returned a result, the other has failed with IndexError and the handle it
\* had set aside as rate limited is in the queue no more.
C36_Witness ==
    /\ threads # <<>>
    /\ \E t, u \in Callers :
          /\ threads[t].pc = "done"
          /\ threads[t].outcome.how = "result"
          /\ threads[u].pc = "done"
          /\ threads[u].outcome.how = "IndexError"
          /\ threads[u].n0 = 2
          /\ threads[u].keys # <<>>
          /\ \E h \in Elems(threads[u].keys) : h \notin Elems(operators[SharedKind])

====
